---- MODULE Spec2Model ----
(***************************************************************************)
(* WBS progress tracker (src/app.py): a Streamlit script that loads a      *)
(* two-level tree of phases and tasks from a CSV export and lets the user  *)
(* toggle completion and add tasks.                                        *)
(*                                                                         *)
(* The script runs top to bottom once per user interaction ("pass").       *)
(* st.experimental_rerun() aborts the pass and starts another one.  A pass *)
(* that reaches the end of the script leaves the session "stable".         *)
(*                                                                         *)
(* Strings are sequences of one-character strings, so that strip(),        *)
(* lower() and startswith() are computed.  A node id "p_3" is the tuple    *)
(* <<"p", 3>> and "p_3_c_1" is <<"p", 3, "c", 1>>.                          *)
(***************************************************************************)
EXTENDS Integers, Sequences, FiniteSets, TLC

(* ---------------- bounds of the model ---------------- *)

\* rows of the CSV after the skipped header rows
MaxRows == 2

\* tasks the tree may have before the add form stops being submitted
MaxTasks == 3

\* passes counted after one user action
MaxPassCount == 4

\* rows after the header block in the files given to the parser alone
MaxParseRows == 3

(* ---------------- program constants ---------------- *)

\* src/app.py:26  for _ in range(7)
SkipRows == 7

(* ---------------- strings ---------------- *)

UpperChars == <<"A","B","C","D","E","F","G","H","I","J","K","L","M",
                "N","O","P","Q","R","S","T","U","V","W","X","Y","Z">>

LowerChars == <<"a","b","c","d","e","f","g","h","i","j","k","l","m",
                "n","o","p","q","r","s","t","u","v","w","x","y","z">>

WhitespaceChars == {" ", "\t"}

\* str.lower() on one character
LowerChar(c) ==
    IF \E i \in 1..26 : UpperChars[i] = c
    THEN LowerChars[CHOOSE i \in 1..26 : UpperChars[i] = c]
    ELSE c

\* mutant: the comparison is case-sensitive
LowerAsIs(s) == s

\* str.lower()
Lower(s) == [i \in 1..Len(s) |-> LowerChar(s[i])]

RECURSIVE LStrip(_)
LStrip(s) ==
    IF s # <<>> /\ Head(s) \in WhitespaceChars THEN LStrip(Tail(s)) ELSE s

RECURSIVE RStrip(_)
RStrip(s) ==
    IF s # <<>> /\ s[Len(s)] \in WhitespaceChars
    THEN RStrip(SubSeq(s, 1, Len(s) - 1))
    ELSE s

\* str.strip()
Strip(s) == RStrip(LStrip(s))

\* str.startswith(prefix)
StartsWith(s, prefix) ==
    /\ Len(s) >= Len(prefix)
    /\ SubSeq(s, 1, Len(prefix)) = prefix

PhasePrefix == <<"p","h","a","s","e">>

(* ---------------- node ids ---------------- *)

\* f"p_{parent_index}"
PId(i) == <<"p", i>>

\* f"p_{parent_index}_c_{child_index}"
CId(i, j) == <<"p", i, "c", j>>

\* Python None for selected_parent_id (falsy, like the empty string)
NoneId == <<>>

(* ---------------- sync_parent_completion ---------------- *)

\* all(c.get("completed", False) for c in parent["children"])
AllChildrenComplete(children) ==
    \A j \in 1..Len(children) : children[j].completed

\* mutant: without the test of line 89, all([]) is True
SyncParentAllOfEmpty(parent) ==
    [parent EXCEPT !.completed = AllChildrenComplete(parent.children)]

\* body of the loop of sync_parent_completion, for one parent
SyncParent(parent) ==
    IF parent.children # <<>>
    THEN [parent EXCEPT !.completed = AllChildrenComplete(parent.children)]
    ELSE parent

sync_parent_completion(wbs_data) ==
    [i \in 1..Len(wbs_data) |-> SyncParent(wbs_data[i])]

(* ---------------- parse_csv_to_wbs ---------------- *)

\* lines 33: not any(field.strip() for field in row)
IsBlankRow(row) == \A k \in 1..Len(row) : Strip(row[k]) = <<>>

\* line 39
RowTaskName(row) == IF Len(row) > 1 THEN Strip(row[2]) ELSE <<>>

\* mutant: the first field is not stripped
RowIdIndicatorRaw(row) == IF Len(row) > 0 THEN row[1] ELSE <<>>

\* line 40
RowIdIndicator(row) == IF Len(row) > 0 THEN Strip(row[1]) ELSE <<>>

\* line 44: not task_id_indicator and task_name.lower().startswith("phase")
IsPhaseRow(row) ==
    /\ RowIdIndicator(row) = <<>>
    /\ StartsWith(Lower(RowTaskName(row)), PhasePrefix)

\* lines 59 and 61; hasParent is the truth value of current_parent
IsChildRow(row, hasParent) ==
    /\ hasParent
    /\ RowTaskName(row) # <<>>
    /\ ~StartsWith(Lower(RowTaskName(row)), PhasePrefix)
    /\ ~(RowIdIndicator(row) = <<>> /\ StartsWith(Lower(RowTaskName(row)), PhasePrefix))

\* lines 45-54 and 191-198.  "level" is a constant of the node kind and
\* "expanded" is only read for the expander of line 251; neither is kept.
NewParentNode(parent_index, name) ==
    [id |-> PId(parent_index), name |-> name, completed |-> FALSE,
     children |-> <<>>]

\* lines 62-70, 212-217
NewChildNode(parent_index, child_index, name) ==
    [id |-> CId(parent_index, child_index), name |-> name, completed |-> FALSE]

\* lines 15-17: the parser's locals.  current_parent refers to a dict that
\* is an element of wbs: it is kept as the position of that element, 0 for
\* None.
ParserStart == [wbs |-> <<>>, parent_index |-> -1, current_parent |-> 0]

\* lines 39-72: a row that is not blank
ParseNonBlankRow(st, row) ==
    IF IsPhaseRow(row)
    THEN [wbs |-> Append(st.wbs, NewParentNode(st.parent_index + 1, RowTaskName(row))),
          parent_index |-> st.parent_index + 1,
          current_parent |-> Len(st.wbs) + 1]
    ELSE IF IsChildRow(row, st.current_parent # 0)
    THEN LET n == st.current_parent
             cur == st.wbs[n]
             child == NewChildNode(st.parent_index, Len(cur.children), RowTaskName(row))
         IN  [st EXCEPT !.wbs[n].children = Append(cur.children, child)]
    ELSE st

\* mutant: a blank row ends the current phase
ParseRowBlankCloses(st, row) ==
    IF IsBlankRow(row) THEN [st EXCEPT !.current_parent = 0]
    ELSE ParseNonBlankRow(st, row)

\* One iteration of "for row in reader", lines 30-72.
ParseRow(st, row) ==
    IF IsBlankRow(row) THEN st ELSE ParseNonBlankRow(st, row)

RECURSIVE ParseRows(_, _)
ParseRows(st, rows) ==
    IF rows = <<>> THEN st ELSE ParseRows(ParseRow(st, Head(rows)), Tail(rows))

\* csv_content is the sequence of rows csv.reader yields.  Fewer than
\* SkipRows rows: next(reader) raises StopIteration, caught at line 74, and
\* the function goes on to lines 82-83 with the empty list.
parse_csv_to_wbs(csv_content) ==
    LET body == IF Len(csv_content) < SkipRows THEN <<>>
                ELSE SubSeq(csv_content, SkipRows + 1, Len(csv_content))
        built == IF Len(csv_content) < SkipRows THEN <<>>
                 ELSE ParseRows(ParserStart, body).wbs
    IN  sync_parent_completion(built)

(* ---------------- calculate_progress ---------------- *)

\* The counters and the rest of the list are bound as the one element of a
\* set before the next iteration, so that they are computed once.

RECURSIVE CountChildren(_, _)
\* inner loop, lines 101-104: acc = <<completed_children, total_children>>
CountChildren(acc, children) ==
    IF children = <<>> THEN acc
    ELSE CHOOSE r \in
             {CountChildren(a, rest) :
                 a \in {<<acc[1] + (IF Head(children).completed THEN 1 ELSE 0),
                          acc[2] + 1>>},
                 rest \in {Tail(children)}} : TRUE

RECURSIVE CountParentsToo(_, _)
\* mutant: a phase is counted like a task
CountParentsToo(acc, wbs_data) ==
    IF wbs_data = <<>> THEN acc
    ELSE CHOOSE r \in
             {CountParentsToo(a, rest) :
                 a \in {CountChildren(
                            <<acc[1] + (IF Head(wbs_data).completed THEN 1 ELSE 0),
                              acc[2] + 1>>, Head(wbs_data).children)},
                 rest \in {Tail(wbs_data)}} : TRUE

RECURSIVE CountParents(_, _)
\* outer loop, line 100
CountParents(acc, wbs_data) ==
    IF wbs_data = <<>> THEN acc
    ELSE CHOOSE r \in
             {CountParents(a, rest) :
                 a \in {CountChildren(acc, Head(wbs_data).children)},
                 rest \in {Tail(wbs_data)}} : TRUE

\* the ratio as <<numerator, denominator>>; 0 is <<0, 1>>
calculate_progress(wbs_data) ==
    LET acc == CountParents(<<0, 0>>, wbs_data)
    IN  IF acc[2] > 0 THEN acc ELSE <<0, 1>>

(* ---------------- Streamlit widgets ---------------- *)

\* mutant: the key alone identifies the widget, value= is used only when the
\* key is new
checkboxKeyOnly(w, key, value) ==
    LET ret == IF key \in DOMAIN w THEN w[key].val ELSE value
    IN  [ret |-> ret,
         w   |-> [k \in (DOMAIN w) \cup {key} |->
                     IF k = key THEN [def |-> value, val |-> ret] ELSE w[k]]]

\* The widget store of the session maps the key of a live checkbox to the
\* default it was created with and its current value.  Streamlit derives a
\* widget's identity from its parameters and its key: rendered again with
\* the same value= it returns the stored (possibly user-changed) value,
\* rendered with another value= it is a new widget that returns value=.
\* st.checkbox(..., value=value, key=key), lines 255-260 and 282-286.
checkbox(w, key, value) ==
    LET ret == IF key \in DOMAIN w /\ w[key].def = value THEN w[key].val ELSE value
    IN  [ret |-> ret,
         w   |-> [k \in (DOMAIN w) \cup {key} |->
                     IF k = key THEN [def |-> value, val |-> ret] ELSE w[k]]]

\* At the end of a pass (finished or aborted by a rerun) Streamlit drops the
\* state of every widget the pass did not render.
RemoveStale(w, rendered) == [k \in (DOMAIN w) \cap rendered |-> w[k]]

\* the user clicks a displayed checkbox
Flip(w, key) == [w EXCEPT ![key].val = ~w[key].val]

(* ---------------- one pass of the script ---------------- *)

LogEntry(op, pid, cid, v) == [op |-> op, pid |-> pid, cid |-> cid, v |-> v]

\* what a pass of the form leaves when it changes nothing
FormUnchanged(wbs_data, op) ==
    [wbs |-> wbs_data, show |-> TRUE, rerun |-> FALSE,
     log |-> <<LogEntry(op, 0, 0, FALSE)>>]

\* lines 189-202: the "Parent" branch
AddParentBranch(wbs_data, ev) ==
    [wbs   |-> Append(wbs_data, NewParentNode(Len(wbs_data), ev.name)),
     show  |-> FALSE,
     rerun |-> TRUE,
     log   |-> <<LogEntry("addPhase", Len(wbs_data) + 1, 0, FALSE)>>]

\* mutant: line 220 is missing
AppendChildKeepsCompleted(wbs_data, i, name) ==
    LET p == wbs_data[i]
        new_child == NewChildNode(i - 1, Len(p.children), name)
    IN  [wbs_data EXCEPT ![i].children = Append(p.children, new_child)]

\* mutant: the child index is taken from the number of phases
AppendChildIndexFromPhases(wbs_data, i, name) ==
    LET p == wbs_data[i]
        new_child == NewChildNode(i - 1, Len(wbs_data), name)
    IN  [wbs_data EXCEPT ![i].children = Append(p.children, new_child),
                         ![i].completed = FALSE]

\* lines 211-220, for the parent at position i: the "completed": False of
\* line 216 is in NewChildNode
AppendChild(wbs_data, i, name) ==
    LET p == wbs_data[i]
        new_child == NewChildNode(i - 1, Len(p.children), name)
    IN  [wbs_data EXCEPT ![i].children = Append(p.children, new_child),
                         ![i].completed = FALSE]

\* mutant: the append is done after the loop, on the last p of the loop
AddChildAfterLoop(wbs_data, selected_parent_id, name) ==
    LET found == {i \in 1..Len(wbs_data) : wbs_data[i].id = selected_parent_id}
        i == IF found # {} THEN CHOOSE k \in found : \A m \in found : k <= m
             ELSE Len(wbs_data)
    IN  [wbs   |-> [wbs_data EXCEPT
                       ![i].children = Append(@, NewChildNode(i - 1, Len(@), name)),
                       ![i].completed = FALSE],
         show  |-> FALSE,
         rerun |-> TRUE,
         log   |-> <<LogEntry(IF found # {} THEN "addTask" ELSE "parentNotFound",
                              IF found # {} THEN i ELSE 0,
                              IF found # {} THEN Len(wbs_data[i].children) + 1 ELSE 0,
                              FALSE)>>]

\* lines 207-228: the search for selected_parent_id; the first match wins
\* (break at line 223); without a match nothing is appended
AddChildBranch(wbs_data, selected_parent_id, name) ==
    LET found == {i \in 1..Len(wbs_data) : wbs_data[i].id = selected_parent_id}
        i == CHOOSE k \in found : \A m \in found : k <= m
    IN  IF found # {}
        THEN [wbs   |-> AppendChild(wbs_data, i, name),
              show  |-> FALSE,
              rerun |-> TRUE,
              log   |-> <<LogEntry("addTask", i, Len(wbs_data[i].children) + 1, FALSE)>>]
        ELSE [wbs   |-> wbs_data,
              show  |-> FALSE,
              rerun |-> TRUE,
              log   |-> <<LogEntry("parentNotFound", 0, 0, FALSE)>>]

\* lines 189-230: a submission with a name
SubmitNamed(wbs_data, ev) ==
    LET parent_options == {PId(i - 1) : i \in 1..Len(wbs_data)}
        \* lines 161-173
        selected_parent_id ==
            IF ev.type = "Child" /\ parent_options # {} THEN ev.sel ELSE NoneId
    IN  IF ev.type = "Parent"
        THEN AddParentBranch(wbs_data, ev)
        ELSE IF ev.type = "Child"
        THEN IF selected_parent_id # NoneId
             THEN AddChildBranch(wbs_data, selected_parent_id, ev.name)
             ELSE FormUnchanged(wbs_data, "noParentSelected")
        ELSE FormUnchanged(wbs_data, "noBranch")

\* mutant: the guard of line 186 is missing
add_task_form_unguarded(wbs_data, ev) == SubmitNamed(wbs_data, ev)

\* lines 185-230: the submit handler of add_task_form.
\* ev is the submitted form: name (text_input), type (radio), sel (what the
\* selectbox returned).  Result: the tree, show_add_task_form, whether
\* st.experimental_rerun() was called, and what was done.
add_task_form(wbs_data, ev) ==
    IF ev.name = <<>>
    THEN FormUnchanged(wbs_data, "missingName")
    ELSE SubmitNamed(wbs_data, ev)

\* The display loop threads s = [wbs, w, r, log, rerun]: the tree, the widget
\* store, the keys rendered so far in this pass, what was done, and whether
\* st.experimental_rerun() has been called.  The state an iteration leaves
\* is bound as the one element of a set before the next iteration is
\* entered, so that it is computed once.

RECURSIVE ChildCheckboxesStaleAll(_, _, _, _, _)
\* mutant: line 295 reads the flag the task had before line 290
ChildCheckboxesStaleAll(s, i, j, children_changed, all_now) ==
    IF j > Len(s.wbs[i].children)
    THEN [s |-> s, children_changed |-> children_changed, all_now |-> all_now]
    ELSE LET child_task == s.wbs[i].children[j]
             cb == checkbox(s.w, child_task.id, child_task.completed)
             differs == cb.ret # child_task.completed
             s2 == [s EXCEPT
                      !.wbs[i].children[j].completed = cb.ret,
                      !.w = cb.w,
                      !.r = @ \cup {child_task.id},
                      !.log = IF differs
                              THEN Append(@, LogEntry("toggleTask", i, j, cb.ret))
                              ELSE @]
         IN  CHOOSE c \in {ChildCheckboxesStaleAll(t, i, j + 1, u[1], u[2]) :
                            t \in {s2},
                            u \in {<<children_changed \/ differs,
                                     all_now /\ child_task.completed>>}} : TRUE

RECURSIVE ChildCheckboxesLastDecides(_, _, _, _, _)
\* mutant: line 296 assigns the flag of the task instead of clearing
ChildCheckboxesLastDecides(s, i, j, children_changed, all_now) ==
    IF j > Len(s.wbs[i].children)
    THEN [s |-> s, children_changed |-> children_changed, all_now |-> all_now]
    ELSE LET child_task == s.wbs[i].children[j]
             cb == checkbox(s.w, child_task.id, child_task.completed)
             differs == cb.ret # child_task.completed
             s2 == [s EXCEPT
                      !.wbs[i].children[j].completed = cb.ret,
                      !.w = cb.w,
                      !.r = @ \cup {child_task.id},
                      !.log = IF differs
                              THEN Append(@, LogEntry("toggleTask", i, j, cb.ret))
                              ELSE @]
         IN  CHOOSE c \in {ChildCheckboxesLastDecides(t, i, j + 1, u[1], u[2]) :
                            t \in {s2},
                            u \in {<<children_changed \/ differs, cb.ret>>}} : TRUE

RECURSIVE ChildCheckboxes(_, _, _, _, _)
\* lines 278-296 for the children of position j.. of parent i; returns
\* [s, children_changed, all_children_now_complete]
ChildCheckboxes(s, i, j, children_changed, all_now) ==
    IF j > Len(s.wbs[i].children)
    THEN [s |-> s, children_changed |-> children_changed, all_now |-> all_now]
    ELSE LET child_task == s.wbs[i].children[j]
             cb == checkbox(s.w, child_task.id, child_task.completed)
             differs == cb.ret # child_task.completed
             s2 == [s EXCEPT
                      !.wbs[i].children[j].completed = cb.ret,
                      !.w = cb.w,
                      !.r = @ \cup {child_task.id},
                      !.log = IF differs
                              THEN Append(@, LogEntry("toggleTask", i, j, cb.ret))
                              ELSE @]
         IN  CHOOSE c \in {ChildCheckboxes(t, i, j + 1, u[1], u[2]) :
                            t \in {s2},
                            u \in {<<children_changed \/ differs,
                                     all_now /\ cb.ret>>}} : TRUE

\* mutant: the children follow the phase only when it is checked
ParentCheckboxChangedCheckOnly(s, i, parent_completed) ==
    [s EXCEPT
       !.wbs[i].completed = parent_completed,
       !.wbs[i].children = [j \in 1..Len(@) |->
                               [@[j] EXCEPT !.completed = @ \/ parent_completed]],
       !.log = Append(@, LogEntry("togglePhase", i, 0, parent_completed)),
       !.rerun = TRUE]

\* lines 262-270: the phase checkbox was changed by the user
ParentCheckboxChanged(s, i, parent_completed) ==
    [s EXCEPT
       !.wbs[i].completed = parent_completed,
       !.wbs[i].children = [j \in 1..Len(@) |-> [@[j] EXCEPT !.completed = parent_completed]],
       !.log = Append(@, LogEntry("togglePhase", i, 0, parent_completed)),
       !.rerun = TRUE]

\* mutant: the phase is derived only when every child is complete
SyncParentNeverUnchecks(s, i, children_changed, all_now) ==
    IF children_changed /\ all_now /\ ~s.wbs[i].completed
    THEN [s EXCEPT !.wbs[i].completed = TRUE,
                   !.log = Append(@, LogEntry("derive", i, 0, TRUE)),
                   !.rerun = TRUE]
    ELSE s

\* mutant: the derived flag is also written to the children
SyncParentCascades(s, i, children_changed, all_now) ==
    IF (children_changed \/ (s.wbs[i].completed /\ ~all_now))
       /\ s.wbs[i].completed # all_now
    THEN [s EXCEPT !.wbs[i].completed = all_now,
                   !.wbs[i].children = [j \in 1..Len(@) |->
                                           [@[j] EXCEPT !.completed = all_now]],
                   !.log = Append(@, LogEntry("derive", i, 0, all_now)),
                   !.rerun = TRUE]
    ELSE s

\* lines 298-304
SyncParentFromChildren(s, i, children_changed, all_now) ==
    IF (children_changed \/ (s.wbs[i].completed /\ ~all_now))
       /\ s.wbs[i].completed # all_now
    THEN [s EXCEPT !.wbs[i].completed = all_now,
                   !.log = Append(@, LogEntry("derive", i, 0, all_now)),
                   !.rerun = TRUE]
    ELSE s

\* lines 244-304: the body of the loop for the parent at position i
DisplayParent(s, i) ==
    LET parent_task == s.wbs[i]
        cb == checkbox(s.w, parent_task.id, parent_task.completed)
        s1 == [s EXCEPT !.w = cb.w, !.r = @ \cup {parent_task.id}]
    IN  IF cb.ret # parent_task.completed
        THEN ParentCheckboxChanged(s1, i, cb.ret)
        ELSE CHOOSE r \in
                 {SyncParentFromChildren(c.s, i, c.children_changed, c.all_now) :
                     c \in {ChildCheckboxes(t, i, 1, FALSE,
                                             parent_task.children # <<>>) :
                               t \in {s1}}} : TRUE

RECURSIVE DisplayLoop(_, _)
\* line 244: for parent_idx, parent_task in enumerate(current_wbs); a rerun
\* aborts the pass
DisplayLoop(s, i) ==
    IF i > Len(s.wbs) \/ s.rerun THEN s
    ELSE CHOOSE r \in {DisplayLoop(t, i + 1) : t \in {DisplayParent(s, i)}} : TRUE

NotShown == <<0, 0>>

\* The script from line 133 on, with wbs_data already in the session state.
\* ev is what the browser sent: trig is the button that was pressed, if any.
Script(wbs_data, show, w, ev) ==
    LET progress == IF wbs_data # <<>> THEN calculate_progress(wbs_data) ELSE NotShown
        show1 == IF ev.trig = "add_button" THEN ~show ELSE show
        form == IF show1 /\ ev.trig = "submit"
                THEN add_task_form(wbs_data, ev)
                ELSE [wbs |-> wbs_data, show |-> show1, rerun |-> FALSE, log |-> <<>>]
        show2 == IF show1 /\ ev.trig = "submit" /\ form.rerun THEN form.show ELSE show1
        s0 == [wbs |-> form.wbs, w |-> w, r |-> {}, log |-> form.log, rerun |-> form.rerun]
    IN  CHOOSE out \in
            {[wbs |-> s1.wbs, show |-> show2, w |-> RemoveStale(s1.w, s1.r),
              rerun |-> s1.rerun, log |-> s1.log, progress |-> progress] :
                s1 \in {IF t.rerun THEN t ELSE DisplayLoop(t, 1) : t \in {s0}}} : TRUE

(* ---------------- the session as a state machine ---------------- *)

VARIABLES
    wbs_data,            \* st.session_state.wbs_data
    show_add_task_form,  \* st.session_state.show_add_task_form
    widgets,             \* the session's checkbox states
    progress_value,      \* line 142, as last computed for display
    event,               \* the interaction the next pass handles
    pc,                  \* "run": a pass is due; "stable": waiting for the user
    act,                 \* the user's last action
    passes,              \* passes run since that action
    pre,                 \* the tree when the user acted
    log,                 \* what the last pass did
    scen,                \* how far the user is in: all tasks of a phase checked,
                         \* the phase unchecked (2), a task of it checked (3)
    reader,              \* parse_csv_to_wbs: the rows of csv.reader
    pos,                 \* rows the reader has yielded
    parser,              \* wbs, parent_index and current_parent
    hist,                \* per row read by line 30: the row, parser before and after
    parse_pc             \* where parse_csv_to_wbs is

\* the locals of parse_csv_to_wbs
pvars == <<reader, pos, parser, hist, parse_pc>>

\* the session
svars == <<wbs_data, show_add_task_form, widgets, progress_value, event, pc,
           act, passes, pre, log, scen>>

vars == <<wbs_data, show_add_task_form, widgets, progress_value, event, pc,
          act, passes, pre, log, scen, reader, pos, parser, hist, parse_pc>>

\* trig: "none", "add_button", "submit" for a pass; in act also "load",
\* "clickPhase" and "clickTask" with the position (pid, cid) and new value v
NoEvent == [trig |-> "none", name |-> <<>>, type |-> "Child", sel |-> NoneId,
            pid |-> 0, cid |-> 0, v |-> FALSE]

NoScen == [stage |-> 0, pid |-> 0, cid |-> 0]

sHeader == <<"h">>
sPhase  == <<"P","h","a","s","e">>
sTask   == <<"T">>
sOne    == <<"1">>

\* rows of the task table the model loads
RowChoices ==
    { <<>>,                    \* an empty line
      << <<>>, sPhase >>,      \* a phase row
      << <<>>, sTask >>,       \* a task row without id indicator
      << sOne, sTask >>,       \* a task row with id indicator
      << sOne >> }             \* a row with one field

RECURSIVE SeqsUpTo(_, _)
\* all sequences over S of length at most n
SeqsUpTo(S, n) ==
    IF n = 0 THEN {<<>>}
    ELSE LET shorter == SeqsUpTo(S, n - 1)
         IN  shorter \cup {Append(q, x) : q \in shorter, x \in S}

HeaderRows(n) == [k \in 1..n |-> <<sHeader>>]

\* the files the model loads: the header block and a table, or a file that
\* ends inside the header block
CsvInputs ==
    {HeaderRows(SkipRows) \o body : body \in SeqsUpTo(RowChoices, MaxRows)}
        \cup {HeaderRows(SkipRows - 1)}

\* initialize_state on the first run of the script, lines 109-126, with the
\* file's rows; the first pass is due
InitSession(csv_content) ==
    /\ wbs_data = parse_csv_to_wbs(csv_content)
    /\ show_add_task_form = FALSE
    /\ widgets = <<>>
    /\ progress_value = NotShown
    /\ event = NoEvent
    /\ pc = "run"
    /\ act = [NoEvent EXCEPT !.trig = "load"]
    /\ passes = 0
    /\ pre = wbs_data
    /\ log = <<>>
    /\ scen = NoScen
    \* parse_csv_to_wbs has returned and its locals are gone
    /\ reader = <<>>
    /\ pos = 0
    /\ parser = ParserStart
    /\ hist = <<>>
    /\ parse_pc = "done"

Init == \E csv_content \in CsvInputs : InitSession(csv_content)

RadioOptions == {"Parent (Phase)", "Child"}

FormNames == {<<>>, sTask}

\* Where the action a takes the user in the sequence "every task of a phase
\* checked, the phase unchecked, one task checked again": a is the click
\* that unchecks a complete phase right after the click that checked the
\* last of its tasks (2), or the click that checks a task of that phase
\* right after (3); any other action leaves the sequence.
OrderStep(a) ==
    IF /\ a.trig = "clickPhase" /\ ~a.v
       /\ act.trig = "clickTask" /\ act.v /\ act.pid = a.pid
       /\ wbs_data[a.pid].completed
       /\ wbs_data[a.pid].children # <<>>
       /\ AllChildrenComplete(wbs_data[a.pid].children)
    THEN [stage |-> 2, pid |-> a.pid, cid |-> 0]
    ELSE IF a.trig = "clickTask" /\ a.v /\ scen.stage = 2 /\ scen.pid = a.pid
    THEN [stage |-> 3, pid |-> a.pid, cid |-> a.cid]
    ELSE NoScen

\* The browser sends the widget states and the pressed button, and a pass
\* is due.  a records the action.
UserAct(w, ev, a) ==
    /\ pc = "stable"
    /\ pc' = "run"
    /\ widgets' = w
    /\ event' = ev
    /\ act' = a
    /\ passes' = 0
    /\ pre' = wbs_data
    /\ scen' = OrderStep(a)
    /\ UNCHANGED <<wbs_data, show_add_task_form, progress_value, log>>
    /\ UNCHANGED pvars

\* the user clicks the "Complete Phase" checkbox of the phase at position i
ClickPhase ==
    \E i \in 1..Len(wbs_data) :
        UserAct(Flip(widgets, wbs_data[i].id), NoEvent,
                [NoEvent EXCEPT !.trig = "clickPhase", !.pid = i,
                                !.v = ~widgets[wbs_data[i].id].val])

\* the user clicks the checkbox of a task
ClickTask ==
    \E i \in 1..Len(wbs_data) : \E j \in 1..Len(wbs_data[i].children) :
        UserAct(Flip(widgets, wbs_data[i].children[j].id), NoEvent,
                [NoEvent EXCEPT !.trig = "clickTask", !.pid = i, !.cid = j,
                                !.v = ~widgets[wbs_data[i].children[j].id].val])

\* the user presses "Add New Task" (line 151)
ClickAddButton ==
    UserAct(widgets, [NoEvent EXCEPT !.trig = "add_button"],
            [NoEvent EXCEPT !.trig = "add_button"])

\* what the selectbox of the displayed form can return
SelectOptions(type) ==
    IF type = "Child" /\ wbs_data # <<>>
    THEN {PId(i - 1) : i \in 1..Len(wbs_data)}
    ELSE {NoneId}

RECURSIVE TaskCount(_)
TaskCount(tree) ==
    IF tree = <<>> THEN 0 ELSE Len(Head(tree).children) + TaskCount(Tail(tree))

\* the tree stays within the model's bound
WithinBound(name, type, sel) ==
    (name # <<>> /\ type = "Child" /\ sel # NoneId) => TaskCount(wbs_data) < MaxTasks

SubmitEvent(name, type, sel) ==
    [NoEvent EXCEPT !.trig = "submit", !.name = name, !.type = type, !.sel = sel]

\* the user fills the form in and presses "Add Task" (line 183)
SubmitForm ==
    /\ show_add_task_form
    /\ \E name \in FormNames, type \in RadioOptions :
         \E sel \in SelectOptions(type) :
            /\ WithinBound(name, type, sel)
            /\ UserAct(widgets, SubmitEvent(name, type, sel),
                       SubmitEvent(name, type, sel))

\* Streamlit runs the script once
RenderPass ==
    /\ pc = "run"
    /\ \E out \in {Script(wbs_data, show_add_task_form, widgets, event)} :
           /\ wbs_data' = out.wbs
           /\ show_add_task_form' = out.show
           /\ widgets' = out.w
           /\ progress_value' = out.progress
           /\ log' = out.log
           /\ pc' = IF out.rerun THEN "run" ELSE "stable"
    /\ passes' = IF passes < MaxPassCount THEN passes + 1 ELSE passes
    /\ event' = NoEvent
    /\ UNCHANGED <<act, pre, scen>>
    /\ UNCHANGED pvars

Next ==
    \/ ClickPhase
    \/ ClickTask
    \/ ClickAddButton
    \/ SubmitForm
    \/ RenderPass

Spec == Init /\ [][Next]_vars

\* Streamlit runs the script whenever a pass is due: after a user action and
\* after st.experimental_rerun() (lines 202, 228, 270, 304).  The user is
\* free to act or not.
SpecFair == Init /\ [][Next]_vars /\ WF_vars(RenderPass)

(* ---------------- the add handler called with any phase id ------------- *)

\* The selectbox only offers the ids of the phases of the tree, so the search
\* of lines 208-223 always succeeds in Spec.  SpecApi also submits the form
\* with the id of a phase the tree does not have (the addTask(tree, parentId,
\* name) of the collaborator contract), to reach line 224.
SubmitStale ==
    /\ show_add_task_form
    /\ wbs_data # <<>>
    /\ \E k \in Len(wbs_data)..MaxRows :
          UserAct(widgets, SubmitEvent(sTask, "Child", PId(k)),
                  SubmitEvent(sTask, "Child", PId(k)))

NextApi == Next \/ SubmitStale

SpecApi == Init /\ [][NextApi]_vars

(* ---------------- the example file of the specification ---------------- *)

sPhase1   == <<"P","h","a","s","e"," ","1",":"," ","D","e","s","i","g","n">>
sDrawings == <<"D","r","a","w","i","n","g","s">>
sPhase2   == <<"P","h","a","s","e"," ","2",":"," ","B","u","i","l","d">>

\* seven skipped rows, then a phase, a task and a second phase
ExampleCsv ==
    HeaderRows(SkipRows) \o
        << << <<>>, sPhase1 >>, << <<>>, sDrawings >>, << <<>>, sPhase2 >> >>

\* the session that loads the example file
InitExample == InitSession(ExampleCsv)

SpecExample == InitExample /\ [][Next]_vars

(* ---------------- parse_csv_to_wbs, row by row ---------------- *)

rEmpty   == <<>>                                            \* an empty line
rBlank   == << <<" ">>, <<>> >>                             \* whitespace only
rPhase   == << <<>>, sPhase >>
rPhaseWs == << <<" ">>, <<" ","P","H","A","S","E"," ">> >>
rTask    == << <<>>, sTask >>
rTaskId  == << sOne, sTask >>
rIdPhase == << sOne, sPhase >>                              \* indicator and "Phase"
rOne     == << sOne >>                                      \* one field
rNoName  == << sOne, <<>> >>

ParseRowChoices ==
    {rEmpty, rBlank, rPhase, rPhaseWs, rTask, rTaskId, rIdPhase, rOne, rNoName}

\* the lengths of the header block: an empty file, a file that ends inside
\* the header block, a complete header block
HeaderLengths == {0, SkipRows - 1, SkipRows}

\* the numbers of table rows after a header block of h rows
BodyLengths(h) == IF h = SkipRows THEN 0..MaxParseRows ELSE {0}

\* parse_csv_to_wbs is entered from line 116 with the rows of a file; line
\* 110 has set wbs_data = []
InitParseWith(rows) ==
    /\ reader = rows
    /\ pos = 0
    /\ parser = ParserStart
    /\ hist = <<>>
    /\ parse_pc = "skip"
    /\ wbs_data = <<>>
    /\ show_add_task_form = FALSE
    /\ widgets = <<>>
    /\ progress_value = NotShown
    /\ event = NoEvent
    /\ pc = "load"
    /\ act = [NoEvent EXCEPT !.trig = "load"]
    /\ passes = 0
    /\ pre = <<>>
    /\ log = <<>>
    /\ scen = NoScen

InitParse ==
    \E h \in HeaderLengths : \E n \in BodyLengths(h) :
        \E body \in [1..n -> ParseRowChoices] :
            InitParseWith(HeaderRows(h) \o [k \in 1..n |-> body[k]])

\* mutant: the handler of line 76 comes first and catches everything
ExceptClauseGeneric(exc) == "error_77"

\* lines 74-79: the except clause an exception of the try block reaches
ExceptClause(exc) == IF exc = "StopIteration" THEN "warning_75" ELSE "error_77"

\* lines 26-27: next(reader) seven times; StopIteration when the rows end
ParseSkip ==
    /\ parse_pc = "skip"
    /\ IF Len(reader) < SkipRows
       THEN /\ pos' = Len(reader)
            /\ parse_pc' = ExceptClause("StopIteration")
       ELSE /\ pos' = SkipRows
            /\ parse_pc' = "rows"
    /\ UNCHANGED <<reader, parser, hist>>
    /\ UNCHANGED svars

\* lines 30-72: one row of "for row in reader"
ParseNextRow ==
    /\ parse_pc = "rows"
    /\ pos < Len(reader)
    /\ pos' = pos + 1
    /\ parser' = ParseRow(parser, reader[pos + 1])
    /\ hist' = Append(hist, [row |-> reader[pos + 1], before |-> parser,
                             after |-> parser'])
    /\ UNCHANGED <<reader, parse_pc>>
    /\ UNCHANGED svars

\* lines 79 and 82-83, and the assignment of line 116: the loop has ended
\* or an except clause has run
ParseReturn ==
    /\ parse_pc \in (IF pos = Len(reader) THEN {"rows", "warning_75", "error_77"}
                     ELSE {"warning_75", "error_77"})
    /\ wbs_data' = IF parse_pc = "error_77" THEN <<>>
                   ELSE sync_parent_completion(parser.wbs)
    /\ parse_pc' = IF parse_pc = "error_77" THEN "returned_79" ELSE "returned_83"
    /\ UNCHANGED <<reader, pos, parser, hist>>
    /\ UNCHANGED <<show_add_task_form, widgets, progress_value, event, pc,
                   act, passes, pre, log, scen>>

NextParse == ParseSkip \/ ParseNextRow \/ ParseReturn

SpecParse == InitParse /\ [][NextParse]_vars

(* ---------------- sync_parent_completion on any tree ---------------- *)

MaxSyncPhases == 2
MaxSyncChildren == 2

\* the flags of the tasks of one phase: any combination
SyncFlags ==
    UNION {[1..n -> BOOLEAN] : n \in 0..MaxSyncChildren}

SyncPhase(i, done, flags) ==
    [id |-> PId(i - 1), name |-> sPhase, completed |-> done,
     children |-> [j \in 1..Len(flags) |->
                      [id |-> CId(i - 1, j - 1), name |-> sTask,
                       completed |-> flags[j]]]]

\* a tree of n phases with the flags d and the task flags f
SyncTree(n, d, f) == [i \in 1..n |-> SyncPhase(i, d[i], f[i])]

\* a tree, before sync_parent_completion is called on it
InitSyncWith(tree) ==
    /\ wbs_data = tree
    /\ pre = wbs_data
    /\ hist = <<>>
    /\ passes = 0
    /\ pc = "sync"
    /\ act = [NoEvent EXCEPT !.trig = "sync"]
    /\ show_add_task_form = FALSE
    /\ widgets = <<>>
    /\ progress_value = NotShown
    /\ event = NoEvent
    /\ log = <<>>
    /\ scen = NoScen
    /\ reader = <<>>
    /\ pos = 0
    /\ parser = ParserStart
    /\ parse_pc = "done"

\* the trees sync_parent_completion is given: any combination of flags
InitSync ==
    \E n \in 0..MaxSyncPhases :
        \E d \in [1..n -> BOOLEAN], f \in [1..n -> SyncFlags] :
            InitSyncWith(SyncTree(n, d, f))

\* wbs = sync_parent_completion(wbs), as on lines 82 and 226; hist keeps the
\* tree each call returned
CallSync ==
    /\ pc = "sync"
    /\ passes < 2
    /\ wbs_data' = sync_parent_completion(wbs_data)
    /\ hist' = Append(hist, wbs_data')
    /\ passes' = passes + 1
    /\ UNCHANGED <<pre, pc, act, show_add_task_form, widgets, progress_value,
                   event, log, scen, reader, pos, parser, parse_pc>>

NextSync == CallSync

SpecSync == InitSync /\ [][NextSync]_vars

\* the function computed at once, as Init uses it, is what the steps give
ParseStepsAgree ==
    parse_pc \in {"returned_83", "returned_79"} =>
        wbs_data = parse_csv_to_wbs(reader)

(* ---------------- properties ---------------- *)

Stable == pc = "stable"

\* the first pass after the user's action has run: the handler has returned
Handled(trig) == act.trig = trig /\ passes = 1

\* the pass handled the user's action, or a later pass has run
AfterAction(trig) == act.trig = trig /\ passes >= 1

NoFalseChild(phase) == ~(\E j \in DOMAIN phase.children : ~phase.children[j].completed)

\* C1: in every stable state every phase with at least one child has
\* completed equal to the AND of its children's completed flags.
C1_CompletionConsistency ==
    Stable =>
        \A i \in 1..Len(wbs_data) :
            wbs_data[i].children # <<>> =>
                (wbs_data[i].completed <=> NoFalseChild(wbs_data[i]))

\* a stable state reached by toggles in which a phase with two children is
\* complete, next to one that is not
C1_Witness ==
    /\ Stable
    /\ act.trig = "clickTask"
    /\ \E i \in 1..Len(wbs_data) :
          Len(wbs_data[i].children) = 2 /\ wbs_data[i].completed
    /\ \E i \in 1..Len(wbs_data) :
          wbs_data[i].children # <<>> /\ ~wbs_data[i].completed

\* C2 (as claimed): a zero-child phase the user has checked is completed
\* when the toggle has been handled and in every state that follows, the
\* next stable state included, until the user acts again.
C2_ZeroChildPhaseKeepsFlag ==
    (AfterAction("clickPhase") /\ act.v /\ pre[act.pid].children = <<>>)
        => wbs_data[act.pid].completed

\* C3: when the handler of a phase toggle to v returns, the phase and every
\* one of its children have completed = v.
C3_PhaseToggleCascades ==
    Handled("clickPhase") =>
        /\ log = <<LogEntry("togglePhase", act.pid, 0, act.v)>>
        /\ wbs_data[act.pid].completed = act.v
        /\ Len(wbs_data[act.pid].children) = Len(pre[act.pid].children)
        /\ \A j \in 1..Len(wbs_data[act.pid].children) :
              wbs_data[act.pid].children[j].completed = act.v

\* a phase toggle over children whose flags differed
C3_Witness ==
    /\ Handled("clickPhase")
    /\ Len(pre[act.pid].children) = 2
    /\ pre[act.pid].children[1].completed # pre[act.pid].children[2].completed
    /\ wbs_data[act.pid].children[1].completed = act.v
    /\ wbs_data[act.pid].children[2].completed = act.v

\* C4: when a pass has handled a task toggle to v (line 289), the task has
\* completed = v and its parent has the AND of its children's flags.
C4_TaskToggleDerivesParent ==
    \A k \in 1..Len(log) :
        log[k].op = "toggleTask" =>
            /\ wbs_data[log[k].pid].children[log[k].cid].completed = log[k].v
            /\ wbs_data[log[k].pid].completed <=> NoFalseChild(wbs_data[log[k].pid])

\* the toggle of the last open task of a phase with two children
C4_Witness ==
    /\ Handled("clickTask")
    /\ log = <<LogEntry("toggleTask", act.pid, act.cid, TRUE),
               LogEntry("derive", act.pid, 0, TRUE)>>
    /\ Len(wbs_data[act.pid].children) = 2
    /\ ~pre[act.pid].completed
    /\ wbs_data[act.pid].completed

\* C5: a task toggle leaves every other phase, and every other task's flag,
\* as it was when the user clicked.
C5_TaskToggleFrame ==
    AfterAction("clickTask") =>
        /\ Len(wbs_data) = Len(pre)
        /\ \A k \in 1..Len(wbs_data) : k # act.pid => wbs_data[k] = pre[k]
        /\ Len(wbs_data[act.pid].children) = Len(pre[act.pid].children)
        /\ \A j \in 1..Len(wbs_data[act.pid].children) :
              j # act.cid =>
                  wbs_data[act.pid].children[j] = pre[act.pid].children[j]

\* a task toggle in a tree with another phase that has a completed child and
\* a completed sibling
C5_Witness ==
    /\ Handled("clickTask")
    /\ log # <<>>
    /\ log[1] = LogEntry("toggleTask", act.pid, act.cid, act.v)
    /\ Len(wbs_data[act.pid].children) = 2
    /\ \E j \in 1..2 : j # act.cid /\ wbs_data[act.pid].children[j].completed
    /\ \E k \in 1..Len(wbs_data) :
          k # act.pid /\ wbs_data[k].children # <<>> /\ wbs_data[k].completed

AddsTask == act.name # <<>> /\ act.type = "Child"
                /\ \E i \in 1..Len(pre) : pre[i].id = act.sel

\* the position of the phase the form selected
SelPos == CHOOSE i \in 1..Len(pre) : pre[i].id = act.sel

\* C6: adding a task to an existing phase appends one task with
\* completed = FALSE at the end of its children, leaves the phase
\* completed = FALSE and leaves the existing children as they were.
C6_AddTaskUncompletes ==
    (Handled("submit") /\ AddsTask) =>
        /\ Len(wbs_data) = Len(pre)
        /\ Len(wbs_data[SelPos].children) = Len(pre[SelPos].children) + 1
        /\ ~wbs_data[SelPos].children[Len(wbs_data[SelPos].children)].completed
        /\ ~wbs_data[SelPos].completed
        /\ \A j \in 1..Len(pre[SelPos].children) :
              wbs_data[SelPos].children[j] = pre[SelPos].children[j]

\* a task added to a phase that was complete
C6_Witness ==
    /\ Handled("submit")
    /\ AddsTask
    /\ pre[SelPos].completed
    /\ pre[SelPos].children # <<>>
    /\ ~wbs_data[SelPos].completed
    /\ Len(wbs_data[SelPos].children) = Len(pre[SelPos].children) + 1

\* C7 (as claimed): the form submitted with a name and the phase type
\* appends one phase without children, completed = FALSE, after the
\* existing phases.
C7_AddPhaseAppends ==
    (Handled("submit") /\ act.name # <<>> /\ act.type = "Parent (Phase)") =>
        /\ Len(wbs_data) = Len(pre) + 1
        /\ SubSeq(wbs_data, 1, Len(pre)) = pre
        /\ wbs_data[Len(wbs_data)].children = <<>>
        /\ ~wbs_data[Len(wbs_data)].completed

StaleParent == act.name # <<>> /\ act.type = "Child" /\ act.sel # NoneId
                   /\ ~(\E i \in 1..Len(pre) : pre[i].id = act.sel)

\* C8: an add-task that names a phase id the tree does not have leaves the
\* tree as it was.
C8_ParentNotFoundNoMutation ==
    (AfterAction("submit") /\ StaleParent) => wbs_data = pre

\* the handler has reported the missing parent, in a tree with a complete
\* phase
C8_Witness ==
    /\ Handled("submit")
    /\ StaleParent
    /\ log = <<LogEntry("parentNotFound", 0, 0, FALSE)>>
    /\ \E i \in 1..Len(wbs_data) : wbs_data[i].completed
    /\ wbs_data = pre

\* C9: the form submitted with an empty name leaves the tree as it was.
C9_MissingNameNoMutation ==
    (AfterAction("submit") /\ act.name = <<>>) => wbs_data = pre

\* an empty name submitted for a child of a complete phase
C9_Witness ==
    /\ Handled("submit")
    /\ act.name = <<>>
    /\ act.type = "Child"
    /\ act.sel # NoneId
    /\ pre[SelPos].completed
    /\ log = <<LogEntry("missingName", 0, 0, FALSE)>>
    /\ wbs_data = pre

TaskPositions(tree) ==
    {q \in (1..Len(tree)) \X (1..MaxRows + MaxTasks) :
        q[2] <= Len(tree[q[1]].children)}

CompletedTaskPositions(tree) ==
    {q \in TaskPositions(tree) : tree[q[1]].children[q[2]].completed}

\* C10: calculate_progress is the number of completed tasks over the number
\* of tasks, phases not counted, within [0, 1], and 0 for a tree without
\* tasks.
C10_ProgressCountsTasks ==
    LET p == calculate_progress(wbs_data)
        total == Cardinality(TaskPositions(wbs_data))
        done == Cardinality(CompletedTaskPositions(wbs_data))
    IN  /\ 0 <= p[1] /\ p[1] <= p[2] /\ p[2] > 0
        /\ total = 0 => p[1] = 0
        /\ total > 0 => p[1] * total = done * p[2]
        /\ (Stable /\ wbs_data # <<>>) => progress_value[2] > 0

\* a tree with a complete phase and an open one: one task of two is done
C10_Witness ==
    /\ calculate_progress(wbs_data) = <<1, 2>>
    /\ \E i \in 1..Len(wbs_data) : wbs_data[i].completed
    /\ \E i \in 1..Len(wbs_data) : ~wbs_data[i].completed

\* the tree the example file is to give
ExampleTree ==
    << [id |-> <<"p", 0>>, name |-> sPhase1, completed |-> FALSE,
        children |-> << [id |-> <<"p", 0, "c", 0>>, name |-> sDrawings,
                         completed |-> FALSE] >>],
       [id |-> <<"p", 1>>, name |-> sPhase2, completed |-> FALSE,
        children |-> <<>>] >>

ExampleToggle ==
    act.trig = "clickTask" /\ pre = ExampleTree /\ act.pid = 1 /\ act.cid = 1

\* C11: the example file loads as two phases p_0 and p_1, the first with the
\* single task p_0_c_0 "Drawings", nothing completed and progress 0; the
\* toggle of p_0_c_0 on that tree completes the task and phase p_0 and gives
\* progress 1, also as displayed in the stable state that follows.
C11_EndToEnd ==
    /\ act.trig = "load" =>
          /\ wbs_data = ExampleTree
          /\ calculate_progress(wbs_data) = <<0, 1>>
          /\ Stable => progress_value = <<0, 1>>
    /\ (ExampleToggle /\ passes >= 1) =>
          /\ act.v
          /\ wbs_data[1].children[1].completed
          /\ wbs_data[1].completed
          /\ wbs_data[2] = ExampleTree[2]
          /\ calculate_progress(wbs_data) = <<1, 1>>
          /\ Stable => progress_value = <<1, 1>>

\* the toggle of p_0_c_0 has been handled on the loaded tree
C11_Witness ==
    /\ ExampleToggle
    /\ Stable
    /\ log = <<>>
    /\ passes = 2
    /\ wbs_data[1].completed
    /\ progress_value = <<1, 1>>

(* rows as the specification classifies them, by enumeration *)

\* every field empty or whitespace only
ClaimBlankRows == {rEmpty, rBlank}

\* first field blank, second field trimmed starts with "phase" in any case
ClaimPhaseRows == {rPhase, rPhaseWs}

\* not blank, second field trimmed not empty, not a phase row
ClaimTaskRows == {rTask, rTaskId, rIdPhase}

\* the step h appended one task to the phase at position cp and did nothing
\* else
AppendedOneTaskTo(h, cp) ==
    /\ Len(h.after.wbs) = Len(h.before.wbs)
    /\ \A i \in 1..Len(h.before.wbs) : i # cp => h.after.wbs[i] = h.before.wbs[i]
    /\ Len(h.after.wbs[cp].children) = Len(h.before.wbs[cp].children) + 1
    /\ SubSeq(h.after.wbs[cp].children, 1, Len(h.before.wbs[cp].children))
          = h.before.wbs[cp].children
    /\ h.after.current_parent = h.before.current_parent

\* C12 (as claimed): every task row read while a phase is open, rows with an
\* id indicator and a name that begins with "phase" included, appends one
\* task to the open phase.
C12_TaskRowsAppend ==
    \A k \in 1..Len(hist) :
        (hist[k].before.current_parent # 0 /\ hist[k].row \in ClaimTaskRows)
            => AppendedOneTaskTo(hist[k], hist[k].before.current_parent)

\* C14: a file with fewer rows than the skip count leaves the parser through
\* the StopIteration clause and the return of line 83, with the empty tree.
C14_ShortInputEmptyTree ==
    (Len(reader) < SkipRows /\ parse_pc # "skip") =>
        /\ parse_pc \in {"warning_75", "returned_83"}
        /\ hist = <<>>
        /\ parser = ParserStart
        /\ wbs_data = <<>>

\* a file of six rows has been parsed
C14_Witness ==
    /\ Len(reader) = SkipRows - 1
    /\ parse_pc = "returned_83"
    /\ wbs_data = <<>>

\* the phase a phase row is to create after n phases
IsFreshPhase(phase, n) ==
    /\ phase.id = <<"p", n>>
    /\ phase.children = <<>>
    /\ ~phase.completed

\* C17: a phase row appends a phase with id p_k, k the number of phases
\* created before it, without children, completed = FALSE, and makes it the
\* current open phase; after two consecutive phase rows both phases have no
\* children.
C17_PhaseRows ==
    /\ \A k \in 1..Len(hist) :
          hist[k].row \in ClaimPhaseRows =>
              LET n == Len(hist[k].before.wbs)
              IN  /\ Len(hist[k].after.wbs) = n + 1
                  /\ SubSeq(hist[k].after.wbs, 1, n) = hist[k].before.wbs
                  /\ IsFreshPhase(hist[k].after.wbs[n + 1], n)
                  /\ hist[k].after.current_parent = n + 1
                  /\ hist[k].after.parent_index = n
    /\ \A k \in 2..Len(hist) :
          (hist[k - 1].row \in ClaimPhaseRows /\ hist[k].row \in ClaimPhaseRows) =>
              LET n == Len(hist[k].after.wbs)
              IN  /\ n >= 2
                  /\ hist[k].after.wbs[n - 1].children = <<>>
                  /\ hist[k].after.wbs[n].children = <<>>

\* two consecutive phase rows, the second with blanks and capitals, after a
\* first phase; the tree has been returned
C17_Witness ==
    /\ parse_pc = "returned_83"
    /\ Len(hist) = 3
    /\ hist[2].row = rPhase
    /\ hist[3].row = rPhaseWs
    /\ Len(wbs_data) = 3
    /\ wbs_data[3].id = <<"p", 2>>
    /\ wbs_data[2].children = <<>>

\* C18: a blank row, a row with fewer than two fields and a non-phase row
\* before any phase leave the parser as it was; a task row after a blank row
\* is appended to the phase that was open before the blank row; the error
\* path is not taken.
C18_IgnoredRows ==
    /\ \A k \in 1..Len(hist) :
          (\/ hist[k].row \in ClaimBlankRows
           \/ Len(hist[k].row) < 2
           \/ (hist[k].before.current_parent = 0 /\ hist[k].row \notin ClaimPhaseRows))
              => hist[k].after = hist[k].before
    /\ \A k \in 2..Len(hist) :
          (/\ hist[k - 1].row \in ClaimBlankRows
           /\ hist[k].row \in {rTask, rTaskId}
           /\ hist[k - 1].before.current_parent # 0)
              => AppendedOneTaskTo([before |-> hist[k - 1].before, after |-> hist[k].after],
                                   hist[k - 1].before.current_parent)
    /\ parse_pc \notin {"error_77", "returned_79"}

\* a phase, a whitespace-only row, then a task that lands in that phase
C18_Witness ==
    /\ parse_pc = "returned_83"
    /\ Len(hist) = 3
    /\ hist[1].row = rPhase
    /\ hist[2].row = rBlank
    /\ hist[3].row = rTaskId
    /\ Len(wbs_data) = 1
    /\ Len(wbs_data[1].children) = 1

\* C13: in every tree reached from a load by submissions of the add form,
\* the phase at position i (from 0) has id p_i, its child at position j has
\* id p_i_c_j, no two phases share an id and no two tasks share an id.
C13_IdsPositionalUnique ==
    /\ \A i \in 1..Len(wbs_data) :
          /\ wbs_data[i].id = <<"p", i - 1>>
          /\ \A j \in 1..Len(wbs_data[i].children) :
                wbs_data[i].children[j].id = <<"p", i - 1, "c", j - 1>>
    /\ \A i, k \in 1..Len(wbs_data) :
          /\ wbs_data[i].id = wbs_data[k].id => i = k
          /\ \A j \in 1..Len(wbs_data[i].children) :
                \A m \in 1..Len(wbs_data[k].children) :
                    wbs_data[i].children[j].id = wbs_data[k].children[m].id
                        => (i = k /\ j = m)

\* the form has added a task to the second phase, which had a task already
C13_Witness ==
    /\ Handled("submit")
    /\ AddsTask
    /\ SelPos = 2
    /\ Len(pre[2].children) = 1
    /\ Len(wbs_data[2].children) = 2
    /\ Len(wbs_data[1].children) >= 1

\* C16: for every tree, after sync_parent_completion every phase with a
\* child has completed = AND of its children's flags, phases without
\* children and all tasks are as before, and a second call changes nothing.
C16_DeriveAllIdempotent ==
    /\ Len(hist) >= 1 =>
          /\ Len(hist[1]) = Len(pre)
          /\ \A i \in 1..Len(pre) :
                /\ hist[1][i].children = pre[i].children
                /\ hist[1][i].id = pre[i].id
                /\ hist[1][i].name = pre[i].name
                /\ pre[i].children # <<>> =>
                      (hist[1][i].completed <=> NoFalseChild(pre[i]))
                /\ pre[i].children = <<>> =>
                      (hist[1][i].completed <=> pre[i].completed)
    /\ Len(hist) >= 2 => hist[2] = hist[1]

\* called twice on a tree whose first phase is complete over an incomplete
\* task and whose second phase is complete without children
C16_Witness ==
    /\ Len(hist) = 2
    /\ Len(pre) = 2
    /\ pre[1].completed
    /\ Len(pre[1].children) = 2
    /\ pre[1].children[1].completed
    /\ ~pre[1].children[2].completed
    /\ pre[2].completed
    /\ pre[2].children = <<>>
    /\ ~wbs_data[1].completed
    /\ wbs_data[2].completed

\* C15: whenever a pass is due (after the load, after a user action, after
\* a rerun request), the passes that follow reach one that requests no
\* rerun, also after the toggle of a phase without children.
C15_RerunLoopTerminates == (pc = "run") ~> (pc = "stable")

\* the toggle of a phase without children has come to rest after three
\* passes
C15_Witness ==
    /\ Stable
    /\ act.trig = "clickPhase"
    /\ act.v
    /\ pre[act.pid].children = <<>>
    /\ passes = 3

\* C20 (as claimed): in every stable state after a user action the progress
\* last computed for display is the share of completed tasks of the current
\* tree.
C20_DisplayedProgressCurrent ==
    (Stable /\ act.trig \in {"clickTask", "clickPhase", "submit"} /\ wbs_data # <<>>) =>
        LET total == Cardinality(TaskPositions(wbs_data))
            done == Cardinality(CompletedTaskPositions(wbs_data))
        IN  /\ progress_value[2] > 0
            /\ total = 0 => progress_value[1] = 0
            /\ total > 0 => progress_value[1] * total = done * progress_value[2]

\* the phase of the sequence, once its third step has been handled
OrderDone == scen.stage = 3 /\ Stable

\* C19 (as claimed): for every phase with at least one child, after "every
\* child checked, the phase unchecked, one child checked again" the phase is
\* not completed.
C19_OverrideThenDerive_AsClaimed ==
    (OrderDone /\ Len(wbs_data[scen.pid].children) >= 1) =>
        ~wbs_data[scen.pid].completed

\* C19 (amended): after that sequence a phase with at least two children is
\* not completed and the child checked is its only completed child; a phase
\* with one child is completed again, as the AND of its children.
C19_OverrideThenDerive ==
    OrderDone =>
        LET phase == wbs_data[scen.pid]
        IN  /\ \A j \in 1..Len(phase.children) :
                  phase.children[j].completed <=> (j = scen.cid)
            /\ Len(phase.children) >= 2 => ~phase.completed
            /\ Len(phase.children) = 1 => phase.completed

\* the sequence on a phase with two children: the second is checked again
C19_Witness ==
    /\ OrderDone
    /\ Len(wbs_data[scen.pid].children) = 2
    /\ scen.cid = 2
    /\ wbs_data[scen.pid].children[2].completed
    /\ ~wbs_data[scen.pid].children[1].completed
    /\ ~wbs_data[scen.pid].completed

====
